---- MODULE Spec2Model ----
(***************************************************************************)
(* Model of the HRIndex citation pipeline (src/services/gemini.ts) and of  *)
(* the semantic concept search of the rights index                         *)
(* (src/components/Constellation.tsx).                                     *)
(*                                                                         *)
(* Spec        one invocation at a time of the four operations exported    *)
(*             by gemini.ts, with every response the generation            *)
(*             capability can give.                                        *)
(* SpecSearch  the search effect of Constellation: keystrokes, the         *)
(*             debounce timer, calls in flight and the session cache.      *)
(***************************************************************************)
EXTENDS Integers, Sequences, FiniteSets, TLC

VARIABLES req, rightsSearchTerm, semanticIds, isSearchingSemantics,
          searchTimeoutRef, timers, inflight, SEMANTIC_CACHE, mounted, serial,
          consoleError

vars == <<req, rightsSearchTerm, semanticIds, isSearchingSemantics,
          searchTimeoutRef, timers, inflight, SEMANTIC_CACHE, mounted, serial,
          consoleError>>

searchVars == <<rightsSearchTerm, semanticIds, isSearchingSemantics,
                searchTimeoutRef, timers, inflight, SEMANTIC_CACHE, mounted, serial,
                consoleError>>

-----------------------------------------------------------------------------
(* Bounds *)

MaxChunks == 2
MaxMatches == 2
MaxIds == 1
MaxTimers == 3
\* Timers a search may set while an analysis request runs beside it.
MaxShared == 1

-----------------------------------------------------------------------------
(* JavaScript values and strings *)

\* A property that is absent (undefined).
Undefined == "<undefined>"
\* A truthy value that is not a string (a number in place of a uri).
NonString == "<number>"

Truthy(v) == v # Undefined /\ v # ""

Upper == "ABCDEFGHIJKLMNOPQRSTUVWXYZ"
Lower == "abcdefghijklmnopqrstuvwxyz"

UpperLetters == {SubSeq(Upper, i, i) : i \in 1..26}

LowerChar(c) ==
  IF c \in UpperLetters
  THEN LET i == CHOOSE j \in 1..26 : SubSeq(Upper, j, j) = c IN SubSeq(Lower, i, i)
  ELSE c

RECURSIVE ToLowerCase(_)
ToLowerCase(s) ==
  IF Len(s) = 0 THEN s
  ELSE LowerChar(SubSeq(s, 1, 1)) \o ToLowerCase(SubSeq(s, 2, Len(s)))

\* String.prototype.includes
Includes(s, p) ==
  \E i \in 1..(Len(s) - Len(p) + 1) : SubSeq(s, i, i + Len(p) - 1) = p

IsSpace(c) == c = " "

RECURSIVE TrimStart(_)
TrimStart(s) ==
  IF Len(s) > 0 /\ IsSpace(SubSeq(s, 1, 1)) THEN TrimStart(SubSeq(s, 2, Len(s))) ELSE s

RECURSIVE TrimEnd(_)
TrimEnd(s) ==
  IF Len(s) > 0 /\ IsSpace(SubSeq(s, Len(s), Len(s)))
  THEN TrimEnd(SubSeq(s, 1, Len(s) - 1)) ELSE s

Trim(s) == TrimEnd(TrimStart(s))

\* [...new Set(xs)]: first occurrences, in order.
RECURSIVE Dedup(_)
Dedup(xs) ==
  IF xs = <<>> THEN <<>>
  ELSE LET init == Dedup(SubSeq(xs, 1, Len(xs) - 1))
           last == xs[Len(xs)]
       IN IF \E i \in DOMAIN init : init[i] = last THEN init ELSE Append(init, last)

Range(xs) == {xs[i] : i \in DOMAIN xs}

SeqsUpTo(S, n) == UNION {[1..k -> S] : k \in 0..n}

-----------------------------------------------------------------------------
(* Trust filtering, gemini.ts *)

EXCLUDED_DOMAINS ==
  {"wikipedia.org", "wiki", "jstor.org", "springer.com/article",
   "sciencedirect.com/science/article", "tandfonline.com/doi/abs",
   "wiley.com/doi/abs", "/abstract", "/citation"}

\* url.toLowerCase() throws when url is not a string.
UrlThrows(url) == url = NonString

ShouldExclude(url) ==
  LET u == ToLowerCase(url) IN \E pattern \in EXCLUDED_DOMAINS : Includes(u, pattern)

TRUSTED_DOMAINS ==
  [legal |-> {"un.org", "ohchr.org", "unicef.org", "unesco.org", "who.int", "ilo.org",
              "treaties.un.org", "legal.un.org", "icj-cij.org"},
   ngo |-> {"hrw.org", "amnesty.org", "icrc.org", "humanrightsfirst.org"},
   academic |-> {"scholar.google.com", "researchgate.net", "academia.edu", "ssrn.com",
                 "arxiv.org", ".edu", ".gov", "philpapers.org", "semanticscholar.org",
                 "europepmc.org", "ncbi.nlm.nih.gov", "openaccess", "/pdf"}]

IsTrustedSource(url, type) ==
  LET u == ToLowerCase(url)
  IN \E domain \in TRUSTED_DOMAINS[type] : Includes(u, ToLowerCase(domain))

goodPatterns ==
  {"scholar.google.com", "researchgate.net", "academia.edu", "ssrn.com", "arxiv.org",
   ".edu", "/pdf", "openaccess", "philpapers.org", "semanticscholar.org",
   "europepmc.org", "ncbi.nlm.nih.gov/pmc"}

badPatterns ==
  {"jstor.org", "springer.com", "sciencedirect.com", "tandfonline.com", "wiley.com",
   "cambridge.org/core/journals", "oxfordjournals.org", "/abstract", "/citation"}

IsLikelyAccessible(url, sourceType) ==
  IF sourceType = "legal" \/ sourceType = "ngo" THEN TRUE
  ELSE LET u == ToLowerCase(url)
           isGood == \E pattern \in goodPatterns : Includes(u, pattern)
           isBad == \E pattern \in badPatterns : Includes(u, pattern)
       IN isGood /\ ~isBad

\* gemini.ts declares parseSearchResults twice; the two declarations differ in
\* the predicate their first statement filters the grounding urls with.
Declarations == {"excluded", "trusted"}

KeepUrl(decl, url, sourceType) ==
  IF decl = "excluded" THEN ~ShouldExclude(url)
  ELSE IsTrustedSource(url, sourceType) /\ IsLikelyAccessible(url, sourceType)

RECURSIVE FilterUrls(_, _, _)
FilterUrls(decl, groundingUrls, sourceType) ==
  IF groundingUrls = <<>> THEN <<>>
  ELSE LET rest == FilterUrls(decl, Tail(groundingUrls), sourceType)
       IN IF KeepUrl(decl, Head(groundingUrls).uri, sourceType)
          THEN <<Head(groundingUrls)>> \o rest ELSE rest

-----------------------------------------------------------------------------
(* Responses of the generation capability *)

Chunk(title, uri) == [title |-> title, uri |-> uri]

\* Grounding chunks {web: {title, uri}} a search-augmented response can carry.
ChunkPool ==
  {Chunk("A", "https://ohchr.org/x"),
   Chunk("B", "https://wikipedia.org/y"),
   Chunk(Undefined, "https://www.HRW.org/r"),
   Chunk("D", Undefined),
   Chunk("F", "https://arxiv.org/pdf/1"),
   Chunk("G", "https://mit.edu/abstract/2"),
   Chunk("H", "https://data.gov/r"),
   Chunk("N", NonString)}

RetrievalResponses ==
  {[kind |-> "error", chunks |-> <<>>], [kind |-> "nometadata", chunks |-> <<>>]}
  \cup {[kind |-> "chunks", chunks |-> cs] : cs \in SeqsUpTo(ChunkPool, MaxChunks)}

\* urlIndex is a JSON number, kept in tenths: 15 is 1.5, 50 is 5.
Match(tenths, title) ==
  [urlIndex |-> tenths, title |-> title,
   reference |-> "Y", uri |-> "https://invented.example/z"]

MatchPool ==
  {Match(-10, "M-1"), Match(0, "M0"), Match(10, "M1"), Match(15, "M1.5"),
   Match(50, "M5")}

\* What the schema-constrained call can do: throw, or answer with text that
\* is not JSON, is the JSON null, is an object without sourceMatches, has a
\* sourceMatches that is not an array, has a null among the matches, or is
\* of the expected shape.
ThrowingKinds == {"error", "nonjson", "null", "nofield", "notarray", "nullelem"}

ExtractionResponses ==
  {[kind |-> k, matches |-> <<>>] : k \in ThrowingKinds}
  \cup {[kind |-> "matches", matches |-> ms] : ms \in SeqsUpTo(MatchPool, MaxMatches)}

-----------------------------------------------------------------------------
(* The pipeline, gemini.ts *)

\* GroundingUrls without .filter(c => c.uri).
GroundingUrlsUnfiltered(chunks) ==
  [i \in 1..Len(chunks) |->
     [title |-> IF Truthy(chunks[i].title) THEN chunks[i].title ELSE "Source",
      uri |-> chunks[i].uri]]

RECURSIVE GroundingUrls(_)
GroundingUrls(chunks) ==
  IF chunks = <<>> THEN <<>>
  ELSE LET c == Head(chunks)
           mapped == [title |-> IF Truthy(c.title) THEN c.title ELSE "Source",
                      uri |-> c.uri]
           rest == GroundingUrls(Tail(chunks))
       IN IF Truthy(mapped.uri) THEN <<mapped>> \o rest ELSE rest

\* ValidIndex without Number.isInteger.
ValidIndexNoInteger(match, filteredUrls) ==
  /\ match.urlIndex >= 0
  /\ match.urlIndex < 10 * Len(filteredUrls)

ValidIndex(match, filteredUrls) ==
  /\ match.urlIndex % 10 = 0
  /\ match.urlIndex >= 0
  /\ match.urlIndex < 10 * Len(filteredUrls)

RECURSIVE FilterMatches(_, _)
FilterMatches(matches, filteredUrls) ==
  IF matches = <<>> THEN <<>>
  ELSE LET rest == FilterMatches(Tail(matches), filteredUrls)
       IN IF ValidIndex(Head(matches), filteredUrls)
          THEN <<Head(matches)>> \o rest ELSE rest

\* ToSource keeping the uri the model wrote.
ToSourceModelUri(match, filteredUrls) ==
  [title |-> match.title, uri |-> match.uri, reference |-> match.reference]

ToSource(match, filteredUrls) ==
  [title |-> match.title,
   uri |-> filteredUrls[(match.urlIndex \div 10) + 1].uri,
   reference |-> match.reference]

\* MapSources giving the sources in the opposite order.
MapSourcesReversed(matches, filteredUrls) ==
  [i \in 1..Len(matches) |-> ToSource(matches[Len(matches) + 1 - i], filteredUrls)]

MapSources(matches, filteredUrls) ==
  [i \in 1..Len(matches) |-> ToSource(matches[i], filteredUrls)]

\* The list of sources in the extraction prompt:
\* filteredUrls.map((u, i) => `[${i}] ${u.title}\n    URL: ${u.uri}`)
PromptSourcesOneBased(filteredUrls) ==
  [i \in 1..Len(filteredUrls) |->
     [index |-> i, title |-> filteredUrls[i].title, uri |-> filteredUrls[i].uri]]

PromptSources(filteredUrls) ==
  [i \in 1..Len(filteredUrls) |->
     [index |-> i - 1, title |-> filteredUrls[i].title, uri |-> filteredUrls[i].uri]]

\* A completed call of an async function: it returned sources, or it threw.
Returned(sources) == [threw |-> FALSE, sources |-> sources]
Threw == [threw |-> TRUE, sources |-> <<>>]

\* The body of the try block of parseSearchResults.
ParseTry(resp, filteredUrls) ==
  IF resp.kind \in ThrowingKinds THEN Threw
  ELSE Returned(MapSources(FilterMatches(resp.matches, filteredUrls), filteredUrls))

\* parseSearchResults without its catch block.
ParseRethrows(r) == r

\* Its catch block.
ParseCatch(r) == IF r.threw THEN Returned(<<>>) ELSE r

\* An orchestrator without its try/catch.
AnalysisRethrows(op, r) == r

\* The catch block of getScopeAnalysis, getStatusAnalysis and getNexusAnalysis.
AnalysisCatch(op, r) == IF r.threw THEN Returned(<<>>) ELSE r

\* parseSearchResults without its early return.
NoSourcesNever(filteredUrls) == FALSE

\* if (filteredUrls.length === 0) return { sources: [] }
NoSources(filteredUrls) == Len(filteredUrls) = 0

\* The first statement of parseSearchResults throws on a uri that is not a string.
FilterThrows(groundingUrls) == \E i \in DOMAIN groundingUrls : UrlThrows(groundingUrls[i].uri)

SourceTypeOf(op) ==
  CASE op = "getScopeAnalysis" -> "legal"
    [] op = "getStatusAnalysis" -> "ngo"
    [] op = "getNexusAnalysis" -> "academic"

AnalysisOps == {"getScopeAnalysis", "getStatusAnalysis", "getNexusAnalysis"}

\* JavaScript values getSemanticRights can return.
ArrayValue(ids) == [type |-> "array", ids |-> ids, str |-> ""]
StringValue(s) == [type |-> "string", ids |-> <<>>, str |-> s]
OtherValue(t) == [type |-> t, ids |-> <<>>, str |-> ""]

IdPool == {"25", "22"}

JsonValues ==
  {ArrayValue(ids) : ids \in SeqsUpTo(IdPool, MaxIds)}
  \cup {StringValue(""), StringValue("25")}
  \cup {OtherValue("object"), OtherValue("null"), OtherValue("number")}

SemanticResponses ==
  {[kind |-> "error", value |-> OtherValue("null")],
   [kind |-> "nonjson", value |-> OtherValue("null")]}
  \cup {[kind |-> "json", value |-> v] : v \in JsonValues}

SemReturned(value) == [threw |-> FALSE, value |-> value]
SemThrew == [threw |-> TRUE, value |-> OtherValue("null")]

\* The body of the try block of getSemanticRights.
SemanticTry(resp) ==
  IF resp.kind \in {"error", "nonjson"} THEN SemThrew ELSE SemReturned(resp.value)

\* Its catch block.
SemanticCatch(r) == IF r.threw THEN SemReturned(ArrayValue(<<>>)) ELSE r

GetSemanticRightsResult(resp) == SemanticCatch(SemanticTry(resp))

-----------------------------------------------------------------------------
(* The search-instruction builder, gemini.ts *)

\* The text getScopeSearchInstructions returned and the return statement that
\* produced it. Of each template literal the first lines are kept, on one
\* line, and the fixed text after the list of required sources is left out.
Instructions(branch, text) == [branch |-> branch, text |-> text]

NoInstructions == Instructions("none", "")

Quoted(rightName) == "\"" \o rightName \o "\""

\* The if / else if chain over region, with Africa tested first.
RegionOfAfricaFirst(region) ==
  IF Includes(region, "africa") \/ Includes(region, "african") THEN "africa"
  ELSE IF Includes(region, "europe") \/ Includes(region, "european") THEN "europe"
  ELSE IF Includes(region, "america") \/ Includes(region, "inter-american") THEN "americas"
  ELSE "other"

\* The if / else if chain over region = subScope.toLowerCase().
RegionOf(region) ==
  IF Includes(region, "europe") \/ Includes(region, "european") THEN "europe"
  ELSE IF Includes(region, "africa") \/ Includes(region, "african") THEN "africa"
  ELSE IF Includes(region, "america") \/ Includes(region, "inter-american") THEN "americas"
  ELSE "other"

InternationalInstructions(rightName) ==
  Instructions("international",
    "Search for OFFICIAL INTERNATIONAL legal instruments protecting " \o Quoted(rightName)
    \o ". REQUIRED: Search ONLY official sources from international organizations:"
    \o " - United Nations official sites (un.org, ohchr.org, treaties.un.org)")

RegionalInstructions(subScope, rightName) ==
  LET regionalInstructions ==
        "Search for OFFICIAL REGIONAL legal instruments protecting " \o Quoted(rightName)
  IN IF Truthy(subScope)
     THEN LET region == RegionOf(ToLowerCase(subScope))
          IN CASE region = "europe" ->
                    Instructions("regional europe", regionalInstructions
                      \o " in Europe. REQUIRED: Official sources only:"
                      \o " - European Court of Human Rights (echr.coe.int)")
               [] region = "africa" ->
                    Instructions("regional africa", regionalInstructions
                      \o " in Africa. REQUIRED: Official sources only:"
                      \o " - African Commission on Human and Peoples' Rights (achpr.org)")
               [] region = "americas" ->
                    Instructions("regional americas", regionalInstructions
                      \o " in the Americas. REQUIRED: Official sources only:"
                      \o " - Inter-American Court of Human Rights (corteidh.or.cr)")
               [] OTHER ->
                    Instructions("regional named", regionalInstructions
                      \o " in " \o subScope
                      \o ". REQUIRED: Official sources from regional organizations only")
     ELSE Instructions("regional systems", regionalInstructions
            \o ". REQUIRED: Official sources from regional organizations:"
            \o " - European Court of Human Rights (echr.coe.int)"
            \o " - African Commission/Court (achpr.org, african-court.org)"
            \o " - Inter-American Court (corteidh.or.cr)"
            \o " - ASEAN official sites (asean.org)")

NationalInstructions(subScope, rightName) ==
  IF Truthy(subScope)
  THEN Instructions("national named",
         "Search for OFFICIAL NATIONAL legal documents protecting " \o Quoted(rightName)
         \o " in " \o subScope \o ". REQUIRED: Official government sources only:"
         \o " - National government websites (.gov, .gob, .gc.ca, .gov.uk, .gov.au, etc.)")
  ELSE Instructions("national examples",
         "Search for examples of OFFICIAL NATIONAL legal documents protecting "
         \o Quoted(rightName) \o ". REQUIRED: Official sources:"
         \o " - National government websites (.gov domains)")

\* A default branch that returns no text.
DefaultInstructionsEmpty(scope, subScope, rightName) == Instructions("default", "")

DefaultInstructions(scope, subScope, rightName) ==
  Instructions("default",
    "Search for OFFICIAL legal instruments protecting " \o Quoted(rightName)
    \o " at " \o scope \o " level "
    \o (IF Truthy(subScope) THEN "in " \o subScope ELSE "")
    \o ". REQUIRED: Official sources from governments or"
    \o " international/regional organizations only")

GetScopeSearchInstructionsText(scope, subScope, rightName) ==
  LET s == ToLowerCase(scope)
  IN CASE s = "international" -> InternationalInstructions(rightName)
       [] s = "regional" -> RegionalInstructions(subScope, rightName)
       [] s = "national" -> NationalInstructions(subScope, rightName)
       [] OTHER -> DefaultInstructions(scope, subScope, rightName)

\* Arguments of the builder: the scopes of the type Scope in several letter
\* cases and two other strings; a subScope absent, empty or given; a right name.
Scopes ==
  {"International", "international", "Regional", "REGIONAL", "National", "nAtIoNaL",
   "Global", ""}

SubScopes ==
  {Undefined, "", "Europe", "EUROPEAN UNION", "Africa", "Europe and Africa",
   "Latin America", "Inter-American", "Asia", "Germany"}

RightNames == {"Privacy", ""}

-----------------------------------------------------------------------------
(* One invocation of an exported operation *)

IdleReq ==
  [op |-> "none", decl |-> "excluded", pc |-> "Idle", outcome |-> "none",
   retrieval |-> "none", chunks |-> <<>>, groundingUrls |-> <<>>,
   filteredUrls |-> <<>>, extraction |-> "none", matches |-> <<>>,
   sources |-> <<>>, value |-> OtherValue("null"), log |-> <<>>,
   prompt |-> <<>>, stage |-> "none",
   scope |-> "", subScope |-> "", rightName |-> "", instructions |-> NoInstructions]

\* The operations keep nothing from one call to the next: a behaviour is one call.
CanStart == req.pc = "Idle"

\* An orchestrator that resets every entry of the session cache when it starts.
StartAnalysisClearsCache(op, decl) ==
  /\ CanStart
  /\ req' = [IdleReq EXCEPT !.op = op, !.decl = decl, !.pc = "Retrieving",
                            !.log = <<"retrieval">>]
  /\ SEMANTIC_CACHE' = [k \in DOMAIN SEMANTIC_CACHE |-> ArrayValue(<<>>)]
  /\ UNCHANGED <<rightsSearchTerm, semanticIds, isSearchingSemantics,
                 searchTimeoutRef, timers, inflight, mounted, serial, consoleError>>

StartAnalysis(op, decl) ==
  /\ CanStart
  /\ req' = [IdleReq EXCEPT !.op = op, !.decl = decl, !.pc = "Retrieving",
                            !.log = <<"retrieval">>]
  /\ UNCHANGED searchVars

GetScopeAnalysis == \E decl \in Declarations : StartAnalysis("getScopeAnalysis", decl)

GetStatusAnalysis == \E decl \in Declarations : StartAnalysis("getStatusAnalysis", decl)

GetNexusAnalysis == \E decl \in Declarations : StartAnalysis("getNexusAnalysis", decl)

\* A catch block that goes on to the extraction call.
RetrievalFailsThenExtracts ==
  /\ req.pc = "Retrieving"
  /\ req' = [req EXCEPT !.pc = "Extracting", !.retrieval = "error",
                        !.filteredUrls = <<Chunk("Source", "https://ohchr.org/x")>>,
                        !.log = @ \o <<"retrieval failed", "extraction">>]
  /\ UNCHANGED searchVars

\* A catch block that issues the retrieval call a second time.
RetrievalFailsRetriesOnce ==
  /\ req.pc = "Retrieving"
  /\ IF "retrieval failed" \in Range(req.log)
     THEN req' = [req EXCEPT !.pc = "Failed", !.retrieval = "error",
                             !.outcome = "returned",
                             !.log = Append(@, "retrieval failed")]
     ELSE req' = [req EXCEPT !.log = @ \o <<"retrieval failed", "retrieval">>]
  /\ UNCHANGED searchVars

\* model.generateContent rejects, or response.text() throws.
RetrievalFails ==
  /\ req.pc = "Retrieving"
  /\ LET r == AnalysisCatch(req.op, Threw)
     IN req' = [req EXCEPT !.pc = "Failed", !.retrieval = "error",
                           !.outcome = IF r.threw THEN "threw" ELSE "returned",
                           !.sources = r.sources,
                           !.log = Append(@, "retrieval failed")]
  /\ UNCHANGED searchVars

\* model.generateContent resolves: the orchestrator builds groundingUrls and
\* calls parseSearchResults, which runs up to its await.
RetrievalReturnsWith(resp) ==
  /\ req.pc = "Retrieving"
  /\ resp.kind # "error"
  /\ LET groundingUrls == GroundingUrls(resp.chunks)
         got == [req EXCEPT !.retrieval = resp.kind, !.chunks = resp.chunks,
                            !.groundingUrls = groundingUrls,
                            !.log = Append(@, "retrieval returned")]
     IN IF FilterThrows(groundingUrls)
        THEN LET r == AnalysisCatch(req.op, Threw)
             IN req' = [got EXCEPT !.pc = "Failed", !.stage = "threw",
                                   !.outcome = IF r.threw THEN "threw" ELSE "returned",
                                   !.sources = r.sources]
        ELSE LET filteredUrls == FilterUrls(req.decl, groundingUrls, SourceTypeOf(req.op))
             IN IF NoSources(filteredUrls)
                THEN req' = [got EXCEPT !.pc = "Done", !.stage = "returned",
                                        !.outcome = "returned",
                                        !.sources = <<>>]
                ELSE req' = [got EXCEPT !.pc = "Extracting",
                                        !.filteredUrls = filteredUrls,
                                        !.prompt = PromptSources(filteredUrls),
                                        !.log = Append(@, "extraction")]
  /\ UNCHANGED searchVars

RetrievalReturns == \E resp \in RetrievalResponses : RetrievalReturnsWith(resp)

\* An extraction that answers by starting the request again.
ExtractionCompletesRetries(resp) ==
  /\ req.pc = "Extracting"
  /\ req' = [req EXCEPT !.pc = "Retrieving"]
  /\ UNCHANGED searchVars

\* modelNoSearch.generateContent completes inside parseSearchResults.
ExtractionCompletesWith(resp) ==
  /\ req.pc = "Extracting"
  /\ LET t == ParseTry(resp, req.filteredUrls)
         p == ParseCatch(t)
         r == AnalysisCatch(req.op, p)
     IN req' = [req EXCEPT !.pc = IF t.threw THEN "Failed" ELSE "Done",
                           !.stage = IF p.threw THEN "threw" ELSE "returned",
                           !.extraction = resp.kind, !.matches = resp.matches,
                           !.outcome = IF r.threw THEN "threw" ELSE "returned",
                           !.sources = r.sources,
                           !.log = Append(@, IF t.threw THEN "extraction failed"
                                                        ELSE "extraction returned")]
  /\ UNCHANGED searchVars

ExtractionCompletes == \E resp \in ExtractionResponses : ExtractionCompletesWith(resp)

\* getSemanticRights called on its own.
GetSemanticRights ==
  /\ CanStart
  /\ req' = [IdleReq EXCEPT !.op = "getSemanticRights", !.pc = "Calling",
                            !.log = <<"semantic">>]
  /\ UNCHANGED searchVars

SemanticCompletes ==
  /\ req.pc = "Calling"
  /\ \E resp \in SemanticResponses :
       LET r == GetSemanticRightsResult(resp)
       IN req' = [req EXCEPT !.pc = "Done", !.extraction = resp.kind,
                             !.outcome = IF r.threw THEN "threw" ELSE "returned",
                             !.value = r.value,
                             !.log = Append(@, "semantic completed")]
  /\ UNCHANGED searchVars

-----------------------------------------------------------------------------
(* The semantic search of Constellation.tsx *)

INSTANT_MAP ==
  [food |-> <<"25">>, eat |-> <<"25">>, hungry |-> <<"25">>, drink |-> <<"25">>,
   water |-> <<"25">>, house |-> <<"25">>, home |-> <<"12", "25">>,
   shelter |-> <<"25">>, fair |-> <<"7", "10">>, justice |-> <<"8", "10">>,
   trial |-> <<"10">>, court |-> <<"8", "10">>, judge |-> <<"10">>,
   police |-> <<"9", "5">>, arrest |-> <<"9">>, jail |-> <<"9", "5">>,
   torture |-> <<"5">>, pain |-> <<"5">>, kill |-> <<"3">>, murder |-> <<"3">>,
   death |-> <<"3">>, work |-> <<"23">>, job |-> <<"23">>,
   money |-> <<"23", "25", "17">>, pay |-> <<"23">>, school |-> <<"26">>,
   learn |-> <<"26">>, teacher |-> <<"26">>, privacy |-> <<"12">>,
   data |-> <<"12">>, internet |-> <<"12", "19">>, speak |-> <<"19">>,
   voice |-> <<"19", "21">>, vote |-> <<"21">>, government |-> <<"21">>,
   church |-> <<"18">>, god |-> <<"18">>, pray |-> <<"18">>, travel |-> <<"13">>,
   plane |-> <<"13">>, border |-> <<"13", "14">>, refugee |-> <<"14">>,
   doctor |-> <<"25">>, health |-> <<"25">>, medicine |-> <<"25">>,
   family |-> <<"16">>, marry |-> <<"16">>, child |-> <<"16", "26">>,
   safety |-> <<"3">>, equal |-> <<"1", "7">>, racism |-> <<"2">>,
   sexism |-> <<"2">>, discrimination |-> <<"2">>]

\* INSTANT_MAP[term] || []
InstantMatches(term) ==
  IF term \in DOMAIN INSTANT_MAP THEN INSTANT_MAP[term] ELSE <<>>

\* rightsSearchTerm.trim().toLowerCase()
Normalize(raw) == ToLowerCase(Trim(raw))

\* What the user can have typed into the search box.
RawTerms == {"", "f", "food", " Food", "zz"}

CacheKeys == {Normalize(raw) : raw \in RawTerms}

\* No property of that name in SEMANTIC_CACHE.
Absent == OtherValue("absent")

\* if (v) ...
TruthyValue(v) ==
  CASE v.type \in {"array", "object", "number"} -> TRUE
    [] v.type = "string" -> v.str # ""
    [] OTHER -> FALSE

\* ...v inside an array literal throws unless v is iterable.
Iterable(v) == v.type \in {"array", "string"}

Spread(v) ==
  IF v.type = "array" THEN v.ids
  ELSE [i \in 1..Len(v.str) |-> SubSeq(v.str, i, i)]

\* An effect that leaves the pending timer alone.
ClearTimeoutNever(ts, handle) == ts

ClearTimeout(ts, handle) == {t \in ts : t.id # handle}

\* A callback that writes the entry of the term now in the search box.
CacheKeyCurrent(c) == Normalize(rightsSearchTerm)

\* SEMANTIC_CACHE[term] = ids: term is the constant of the effect run that
\* created the timer.
CacheKey(c) == c.term

\* A call in flight; overlapped records that another call for the same term
\* completed while this one was in flight.
Call(t) == [id |-> t.id, term |-> t.term, hadEntry |-> t.hadEntry, overlapped |-> FALSE]

Overlap(d, c) == IF d.term = c.term THEN [d EXCEPT !.overlapped = TRUE] ELSE d

HoldsEntry(term) == SEMANTIC_CACHE[term].type # "absent"

SearchInit ==
  /\ rightsSearchTerm = ""
  /\ semanticIds = <<>>
  /\ isSearchingSemantics = FALSE
  /\ searchTimeoutRef = 0
  /\ timers = {}
  /\ inflight = {}
  /\ SEMANTIC_CACHE = [k \in CacheKeys |-> Absent]
  /\ mounted = TRUE
  /\ serial = 0
  /\ consoleError = FALSE

Init ==
  /\ req = IdleReq
  /\ SearchInit

\* setRightsSearchTerm(raw): the cleanup of the previous effect runs, then the
\* effect runs with the new term.
ChangeTerm ==
  /\ mounted
  /\ \E raw \in RawTerms :
       /\ raw # rightsSearchTerm
       /\ rightsSearchTerm' = raw
       /\ LET term == Normalize(raw)
              cleared == ClearTimeout(timers, searchTimeoutRef)
              instantMatches == InstantMatches(term)
          IN IF Len(term) > 1
             THEN IF TruthyValue(SEMANTIC_CACHE[term])
                  THEN IF Iterable(SEMANTIC_CACHE[term])
                       THEN /\ semanticIds' =
                                 Dedup(instantMatches \o Spread(SEMANTIC_CACHE[term]))
                            /\ timers' = cleared
                            /\ UNCHANGED <<isSearchingSemantics, searchTimeoutRef,
                                           mounted, serial>>
                       ELSE /\ mounted' = FALSE
                            /\ timers' = cleared
                            /\ UNCHANGED <<semanticIds, isSearchingSemantics,
                                           searchTimeoutRef, serial>>
                  ELSE /\ serial < MaxTimers
                       /\ semanticIds' = instantMatches
                       /\ isSearchingSemantics' = TRUE
                       /\ serial' = serial + 1
                       /\ searchTimeoutRef' = serial + 1
                       /\ timers' = cleared \cup
                            {[id |-> serial + 1, term |-> term,
                              hadEntry |-> HoldsEntry(term)]}
                       /\ UNCHANGED mounted
             ELSE /\ semanticIds' = <<>>
                  /\ isSearchingSemantics' = FALSE
                  /\ timers' = cleared
                  /\ UNCHANGED <<searchTimeoutRef, mounted, serial>>
  /\ UNCHANGED <<req, inflight, SEMANTIC_CACHE, consoleError>>

\* The debounce timer expires: its callback calls getSemanticRights(term).
TimerFires ==
  /\ \E t \in timers :
       /\ timers' = timers \ {t}
       /\ inflight' = inflight \cup {Call(t)}
  /\ UNCHANGED <<req, rightsSearchTerm, semanticIds, isSearchingSemantics,
                 searchTimeoutRef, SEMANTIC_CACHE, mounted, serial, consoleError>>

\* getSemanticRights resolves inside the timer callback; consoleError tells
\* whether its catch block logged "Semantic search failed:".
CallCompletes ==
  /\ \E c \in inflight, resp \in SemanticResponses :
       LET ids == GetSemanticRightsResult(resp).value
       IN /\ inflight' = {Overlap(d, c) : d \in inflight \ {c}}
          /\ consoleError' = SemanticTry(resp).threw
          /\ SEMANTIC_CACHE' = [SEMANTIC_CACHE EXCEPT ![CacheKey(c)] = ids]
          /\ IF ~mounted
             THEN UNCHANGED <<semanticIds, isSearchingSemantics, timers, mounted>>
             ELSE IF Iterable(ids)
                  THEN /\ semanticIds' = Dedup(semanticIds \o Spread(ids))
                       /\ isSearchingSemantics' = FALSE
                       /\ UNCHANGED <<timers, mounted>>
                  ELSE /\ mounted' = FALSE
                       /\ isSearchingSemantics' = FALSE
                       /\ timers' = ClearTimeout(timers, searchTimeoutRef)
                       /\ UNCHANGED semanticIds
  /\ UNCHANGED <<req, rightsSearchTerm, searchTimeoutRef, serial>>

-----------------------------------------------------------------------------
(* Specifications *)

Next ==
  \/ GetScopeAnalysis
  \/ GetStatusAnalysis
  \/ GetNexusAnalysis
  \/ GetSemanticRights
  \/ RetrievalFails
  \/ RetrievalReturns
  \/ ExtractionCompletes
  \/ SemanticCompletes

Spec == Init /\ [][Next]_vars

\* The short responses: at most one chunk, at most one match.
AtMostOne(pool) == {<<>>} \cup {<<x>> : x \in pool}

SharedRetrievals == {r \in RetrievalResponses : r.chunks \in AtMostOne(ChunkPool)}

SharedExtractions == {r \in ExtractionResponses : r.matches \in AtMostOne(MatchPool)}

RetrievalReturnsShort == \E resp \in SharedRetrievals : RetrievalReturnsWith(resp)

ExtractionCompletesShort == \E resp \in SharedExtractions : ExtractionCompletesWith(resp)

NextAnswered ==
  \/ GetScopeAnalysis
  \/ GetStatusAnalysis
  \/ GetNexusAnalysis
  \/ GetSemanticRights
  \/ RetrievalFails
  \/ RetrievalReturnsShort
  \/ ExtractionCompletesShort
  \/ SemanticCompletes

\* Every generation call that was issued is answered: its promise resolves or
\* rejects.
CallsAreAnswered ==
  /\ WF_vars(RetrievalFails \/ RetrievalReturnsShort)
  /\ WF_vars(ExtractionCompletesShort)
  /\ WF_vars(SemanticCompletes)

\* One request with short responses, every call answered.
SpecAnswered == Init /\ [][NextAnswered]_vars /\ CallsAreAnswered

\* The builder called with arguments of every kind.
InitInstructions ==
  /\ \E scope \in Scopes, subScope \in SubScopes, rightName \in RightNames :
       req = [IdleReq EXCEPT !.op = "getScopeSearchInstructions", !.scope = scope,
                             !.subScope = subScope, !.rightName = rightName]
  /\ SearchInit

GetScopeSearchInstructions ==
  /\ req.op = "getScopeSearchInstructions"
  /\ req.pc = "Idle"
  /\ req' = [req EXCEPT !.pc = "Done", !.outcome = "returned",
                        !.instructions =
                          GetScopeSearchInstructionsText(req.scope, req.subScope,
                                                         req.rightName)]
  /\ UNCHANGED searchVars

NextInstructions == GetScopeSearchInstructions

SpecInstructions == InitInstructions /\ [][NextInstructions]_vars

NextSearch ==
  \/ ChangeTerm
  \/ TimerFires
  \/ CallCompletes

SpecSearch == Init /\ [][NextSearch]_vars

\* Analysis requests, one after the other, beside the search of the archive.
\* The responses are the short ones, the search knows two terms.
SharedTerms == {"", "food"}

\* The awaiting caller takes the result; the locals of the call are gone.
ResultTaken ==
  /\ req.pc \in {"Done", "Failed"}
  /\ req' = IdleReq
  /\ UNCHANGED searchVars

NextConcurrent ==
  \/ GetScopeAnalysis
  \/ GetStatusAnalysis
  \/ GetNexusAnalysis
  \/ GetSemanticRights
  \/ RetrievalFails
  \/ RetrievalReturnsShort
  \/ ExtractionCompletesShort
  \/ SemanticCompletes
  \/ ResultTaken
  \/ ChangeTerm /\ rightsSearchTerm' \in SharedTerms /\ serial' <= MaxShared
  \/ TimerFires
  \/ CallCompletes

SpecConcurrent == Init /\ [][NextConcurrent]_vars

-----------------------------------------------------------------------------
(* Properties of the citation pipeline *)

MatchesAllow(uri, type) ==
  \E p \in TRUSTED_DOMAINS[type] : Includes(ToLowerCase(uri), p)

MatchesDeny(uri) ==
  \E p \in badPatterns : Includes(ToLowerCase(uri), p)

Retrieved == req.retrieval \in {"nometadata", "chunks"}

\* C1: every citation an analysis operation returns carries the uri of a
\* candidate of its own request: one that is in the filtered list, that a
\* grounding chunk of the retrieval response carried and that passed the filter.
CitationUrisAreCandidates ==
  (req.op \in AnalysisOps /\ req.outcome = "returned") =>
    \A i \in DOMAIN req.sources :
      /\ \E j \in DOMAIN req.filteredUrls : req.sources[i].uri = req.filteredUrls[j].uri
      /\ \E k \in DOMAIN req.chunks :
           /\ req.chunks[k].uri = req.sources[i].uri
           /\ KeepUrl(req.decl, req.chunks[k].uri, SourceTypeOf(req.op))

\* A result with a citation whose match carried a uri of the model's own.
CitationReturned ==
  /\ req.pc = "Done"
  /\ Len(req.sources) > 0
  /\ \E i \in DOMAIN req.matches : req.matches[i].uri # req.sources[1].uri

\* The static legal fallback citation points to this page.
LegalFallbackUri == "https://www.ohchr.org/en/instruments-listings"

\* C2: a request that failed, in retrieval or in extraction, returns exactly
\* one fallback citation, for getScopeAnalysis the one with the fixed OHCHR
\* uri, and never an empty result.
FailureGivesFallback ==
  (req.op \in AnalysisOps /\ req.pc = "Failed") =>
    /\ Len(req.sources) = 1
    /\ req.op = "getScopeAnalysis" => req.sources[1].uri = LegalFallbackUri

\* C3: no call of the four exported operations ends by throwing; once the
\* generation call has answered in any way, the operation has returned a value.
NeverThrows ==
  /\ req.outcome # "threw"
  /\ req.pc \in {"Done", "Failed"} => req.outcome = "returned"

\* An analysis whose retrieval call failed and that returned all the same.
ReturnedAfterCallError ==
  /\ req.op = "getScopeAnalysis"
  /\ req.retrieval = "error"
  /\ req.outcome = "returned"

InRange(match, n) ==
  \E k \in 0..(n - 1) : match.urlIndex = 10 * k

KeptMatches ==
  LET Test(m) == InRange(m, Len(req.filteredUrls)) IN SelectSeq(req.matches, Test)

\* C4: the matches kept are exactly those whose urlIndex is an integer k with
\* 0 <= k < number of filtered candidates, whatever the other matches of the
\* response are; a single match with urlIndex 5 against 2 candidates gives
\* no source.
OnlyIndexedMatchesKept ==
  (req.pc = "Done" /\ req.extraction = "matches") =>
    /\ Len(req.sources) = Len(KeptMatches)
    /\ \A i \in DOMAIN req.sources : req.sources[i].title = KeptMatches[i].title
    /\ (Len(req.filteredUrls) = 2 /\ req.matches = <<Match(50, "M5")>>)
         => req.sources = <<>>

\* A response with a valid and an invalid match, of which the valid one is returned.
InvalidMatchDroppedAlone ==
  /\ req.pc = "Done"
  /\ Len(req.matches) = 2
  /\ \E i \in DOMAIN req.matches : ~InRange(req.matches[i], Len(req.filteredUrls))
  /\ Len(req.sources) = 1

NoneSurvives ==
  /\ req.op \in AnalysisOps
  /\ Retrieved
  /\ ~FilterThrows(req.groundingUrls)
  /\ \A i \in DOMAIN req.groundingUrls :
       ~KeepUrl(req.decl, req.groundingUrls[i].uri, SourceTypeOf(req.op))

\* C5: when no candidate survives the filter, the request issues no extraction
\* call and returns the empty result.
NoCandidateNoExtraction ==
  NoneSurvives =>
    /\ "extraction" \notin Range(req.log)
    /\ req.pc = "Done"
    /\ req.outcome = "returned"
    /\ req.sources = <<>>

\* Candidates were observed, all were rejected, and the request is over.
AllCandidatesRejected ==
  /\ NoneSurvives
  /\ Len(req.groundingUrls) > 0
  /\ req.pc = "Done"

\* C6: an extraction call is issued only right after the retrieval call of
\* the request has returned; a failed retrieval is followed by no extraction.
ExtractionAfterRetrieval ==
  /\ \A i \in DOMAIN req.log :
       req.log[i] = "extraction" => (i > 1 /\ req.log[i - 1] = "retrieval returned")
  /\ "retrieval failed" \in Range(req.log) => "extraction" \notin Range(req.log)
  /\ req.pc = "Extracting" => Retrieved

\* A request that went through both calls.
BothCallsMade ==
  req.log = <<"retrieval", "retrieval returned", "extraction", "extraction returned">>

\* C7: for legal and ngo requests a candidate is in the list handed to the
\* extraction stage if and only if its uri contains, ignoring case, an
\* allow-pattern of the category.
AllowPatternDecidesLegalNgo ==
  (req.op \in {"getScopeAnalysis", "getStatusAnalysis"} /\ Retrieved
     /\ ~FilterThrows(req.groundingUrls)) =>
    \A i \in DOMAIN req.groundingUrls :
      (req.groundingUrls[i] \in Range(req.filteredUrls))
        <=> MatchesAllow(req.groundingUrls[i].uri, SourceTypeOf(req.op))

\* C8: for academic requests filtered with the trusted-domain tables a
\* candidate is accepted if and only if its uri contains an academic
\* allow-pattern and no deny-pattern.
AllowAndNoDenyDecidesAcademic ==
  (req.op = "getNexusAnalysis" /\ req.decl = "trusted" /\ Retrieved
     /\ ~FilterThrows(req.groundingUrls)) =>
    \A i \in DOMAIN req.groundingUrls :
      (req.groundingUrls[i] \in Range(req.filteredUrls))
        <=> (MatchesAllow(req.groundingUrls[i].uri, "academic")
               /\ ~MatchesDeny(req.groundingUrls[i].uri))

\* C15: when the extraction call throws, or answers text that is not JSON or
\* JSON without a sourceMatches array, parseSearchResults itself returns the
\* empty citation list, and so does the operation: no exception leaves the stage.
MalformedExtractionGivesNoSources ==
  (req.op \in AnalysisOps /\ req.extraction \in ThrowingKinds) =>
    /\ req.stage = "returned"
    /\ req.outcome = "returned"
    /\ req.sources = <<>>

\* An extraction response that was JSON without the sourceMatches field.
ExtractionWithoutMatchesField ==
  /\ req.extraction = "nofield"
  /\ Len(req.filteredUrls) > 0
  /\ req.stage = "returned"

\* C16: the citations returned are the valid matches of the extraction
\* response, one per match, in the response's order and with repetitions,
\* each with the match's title and reference and with the uri of the
\* candidate at the match's index in the filtered list.
CitationsAreValidMatchesInOrder ==
  (req.pc = "Done" /\ req.extraction = "matches") =>
    req.sources =
      [i \in 1..Len(KeptMatches) |->
         [title |-> KeptMatches[i].title,
          uri |-> req.filteredUrls[(KeptMatches[i].urlIndex \div 10) + 1].uri,
          reference |-> KeptMatches[i].reference]]

\* A match returned twice gives two citations, resolved against a filtered
\* list that differs from the unfiltered one at the index used.
TwoCitationsAfterFiltering ==
  /\ req.pc = "Done"
  /\ Len(req.sources) = 2
  /\ req.matches[1] = req.matches[2]
  /\ Len(req.groundingUrls) = 2
  /\ Len(req.filteredUrls) = 1
  /\ req.groundingUrls[1].uri # req.filteredUrls[1].uri

\* The candidates of the request that pass the filter of its declaration.
PassedFilter ==
  LET Test(u) == KeepUrl(req.decl, u.uri, SourceTypeOf(req.op))
  IN SelectSeq(req.groundingUrls, Test)

\* The scenario: candidates ohchr.org/x and wikipedia.org/y, category legal.
OhchrAndWikipedia ==
  /\ req.op = "getScopeAnalysis"
  /\ Len(req.groundingUrls) = 2
  /\ req.groundingUrls[1].uri = "https://ohchr.org/x"
  /\ req.groundingUrls[2].uri = "https://wikipedia.org/y"

\* C17: the prompt of a pending extraction call lists the candidates that
\* passed the filter and no other, in their original order, numbered from 0;
\* with candidates ohchr.org/x and wikipedia.org/y the only index offered is
\* 0. A request that issues no extraction call builds no list.
PromptListsFilteredCandidates ==
  /\ "extraction" \notin Range(req.log) => req.prompt = <<>>
  /\ req.pc = "Extracting" =>
       /\ LET passed == PassedFilter
          IN req.prompt =
               [i \in 1..Len(passed) |->
                  [index |-> i - 1, title |-> passed[i].title, uri |-> passed[i].uri]]
       /\ OhchrAndWikipedia =>
            /\ {req.prompt[i].index : i \in DOMAIN req.prompt} = {0}
            /\ req.prompt[1].uri = "https://ohchr.org/x"

\* The prompt of the scenario has been built and sent.
PromptOfScenarioSent ==
  /\ OhchrAndWikipedia
  /\ req.pc = "Extracting"
  /\ Len(req.prompt) = 1

\* The builder has returned.
Built == req.op = "getScopeSearchInstructions" /\ req.pc = "Done"

\* C23: whatever scope, subScope and right name the builder is called with,
\* it can run, it returns, and the text it returns is not empty.
InstructionsNeverEmpty ==
  /\ (req.op = "getScopeSearchInstructions" /\ req.pc = "Idle") =>
       ENABLED GetScopeSearchInstructions
  /\ Built => (req.outcome = "returned" /\ Len(req.instructions.text) > 0)

\* The default branch, taken for a scope that is none of the three, with an
\* empty right name and no subScope.
DefaultBranchTaken ==
  /\ Built
  /\ req.scope = "Global"
  /\ req.subScope = Undefined
  /\ req.rightName = ""
  /\ req.instructions.branch = "default"

\* The keyword of the first regional system, in the order europe, africa,
\* america, that the subScope contains in any letter case; "none" without one.
FirstKeyword(subScope) ==
  LET r == ToLowerCase(subScope)
  IN IF ~Truthy(subScope) THEN "none"
     ELSE IF Includes(r, "europe") THEN "europe"
     ELSE IF Includes(r, "africa") THEN "africa"
     ELSE IF Includes(r, "america") THEN "america"
     ELSE "none"

\* The instruction lists the regional systems side by side.
ListsRegionalSystems(text) ==
  /\ Includes(text, "echr.coe.int")
  /\ Includes(text, "achpr.org")
  /\ Includes(text, "corteidh.or.cr")

\* What C24 says of the matched regional subScopes and of scope National.
MatchedAndNationalBranches ==
  LET k == FirstKeyword(req.subScope)
      text == req.instructions.text
      branch == req.instructions.branch
  IN /\ ToLowerCase(req.scope) = "regional" =>
          /\ k = "europe" => (branch = "regional europe" /\ Includes(text, "echr.coe.int"))
          /\ k = "africa" => (branch = "regional africa" /\ Includes(text, "achpr.org"))
          /\ k = "america" =>
               (branch = "regional americas" /\ Includes(text, "corteidh.or.cr"))
          /\ k # "none" => ~ListsRegionalSystems(text)
     /\ ToLowerCase(req.scope) = "national" =>
          IF Truthy(req.subScope)
          THEN branch = "national named" /\ Includes(text, " in " \o req.subScope \o ".")
          ELSE branch = "national examples" /\ Includes(text, "examples")

\* C24 as stated: a regional subScope selects the instruction of the first
\* regional system whose keyword it contains, and one that is absent or
\* contains no keyword gives the instruction that lists the regional systems;
\* a national subScope is named in the instruction, an absent one gives the
\* cross-country examples.
UnmatchedRegionListsSystems ==
  Built =>
    /\ MatchedAndNationalBranches
    /\ (ToLowerCase(req.scope) = "regional" /\ FirstKeyword(req.subScope) = "none") =>
         ListsRegionalSystems(req.instructions.text)

\* C24 amended: as stated, but only an absent subScope gives the instruction
\* listing the regional systems; a subScope that contains no keyword gives an
\* instruction that names that subScope and no particular system.
UnmatchedRegionIsNamed ==
  Built =>
    /\ MatchedAndNationalBranches
    /\ (ToLowerCase(req.scope) = "regional" /\ FirstKeyword(req.subScope) = "none") =>
         IF Truthy(req.subScope)
         THEN /\ req.instructions.branch = "regional named"
              /\ Includes(req.instructions.text, " in " \o req.subScope \o ".")
              /\ ~ListsRegionalSystems(req.instructions.text)
         ELSE /\ req.instructions.branch = "regional systems"
              /\ ListsRegionalSystems(req.instructions.text)

\* A regional subScope with two keywords, answered for the first of them.
FirstOfTwoKeywords ==
  /\ Built
  /\ req.scope = "REGIONAL"
  /\ req.subScope = "Europe and Africa"
  /\ req.instructions.branch = "regional europe"

\* C25: the candidates are the grounding chunks that have a uri, in chunk
\* order, one per chunk, with "Source" for a missing title; without grounding
\* metadata there is none; every candidate has a uri.
CandidatesAreChunksWithUri ==
  Retrieved =>
    LET HasUri(c) == c.uri # Undefined /\ c.uri # ""
        kept == SelectSeq(req.chunks, HasUri)
    IN /\ req.groundingUrls =
            [i \in 1..Len(kept) |->
               [title |-> IF kept[i].title \in {Undefined, ""} THEN "Source"
                          ELSE kept[i].title,
                uri |-> kept[i].uri]]
       /\ req.retrieval = "nometadata" => req.groundingUrls = <<>>
       /\ \A i \in DOMAIN req.groundingUrls : HasUri(req.groundingUrls[i])

\* A chunk without uri was dropped and the chunk after it, which has no
\* title, was kept as "Source".
UntitledChunkKept ==
  /\ Len(req.chunks) = 2
  /\ req.chunks[1].uri = Undefined
  /\ req.chunks[2].title = Undefined
  /\ req.groundingUrls = <<Chunk("Source", req.chunks[2].uri)>>

\* The transitions C26 lists.
ListedEdges ==
  {<<"Idle", "Retrieving">>, <<"Retrieving", "Extracting">>, <<"Extracting", "Done">>,
   <<"Retrieving", "Failed">>, <<"Extracting", "Failed">>}

Finished == req.pc \in {"Done", "Failed"} /\ req.outcome = "returned"

Pending == req.op \in AnalysisOps /\ req.pc \in {"Retrieving", "Extracting"}

\* C26 as stated: an analysis request takes the listed transitions and no
\* other, and, every call being answered, a request that was started ends in
\* Done or Failed with a result.
OnlyListedTransitions ==
  /\ [][req'.op \in AnalysisOps => <<req.pc, req'.pc>> \in ListedEdges]_vars
  /\ (Pending ~> Finished)

\* C26 amended: the listed transitions and the one from Retrieving to Done,
\* taken when the retrieval returned and no candidate passed the filter, are
\* the only ones; a request that was started ends in Done or Failed with a
\* result, and stays there.
ListedTransitionsOrEmptyResult ==
  /\ [][req'.op \in AnalysisOps =>
          \/ <<req.pc, req'.pc>> \in ListedEdges
          \/ /\ <<req.pc, req'.pc>> = <<"Retrieving", "Done">>
             /\ req'.filteredUrls = <<>>
             /\ req'.retrieval # "error"]_vars
  /\ (Pending ~> Finished)

\* A request that went from Retrieving to Done.
DoneWithoutExtraction ==
  /\ req.op \in AnalysisOps
  /\ req.pc = "Done"
  /\ req.log = <<"retrieval", "retrieval returned">>
  /\ req.outcome = "returned"

\* What a request returns when it runs alone with the responses it received.
AloneResult(r) ==
  IF r.retrieval = "error" THEN AnalysisCatch(r.op, Threw)
  ELSE LET groundingUrls == GroundingUrls(r.chunks)
       IN IF FilterThrows(groundingUrls) THEN AnalysisCatch(r.op, Threw)
          ELSE LET filteredUrls == FilterUrls(r.decl, groundingUrls, SourceTypeOf(r.op))
               IN IF NoSources(filteredUrls) THEN Returned(<<>>)
                  ELSE AnalysisCatch(r.op,
                         ParseCatch(ParseTry([kind |-> r.extraction,
                                              matches |-> r.matches], filteredUrls)))

Issued(call) == Cardinality({i \in DOMAIN req.log : req.log[i] = call})

\* C30: an analysis request issues the retrieval call once, and the
\* extraction call at most once: once when the retrieval returned and a
\* candidate passed the filter, never otherwise.
OneRetrievalAtMostOneExtraction ==
  req.op \in AnalysisOps =>
    /\ Issued("retrieval") = 1
    /\ Issued("extraction") <= 1
    /\ Issued("extraction") = 1 => (Retrieved /\ req.filteredUrls # <<>>)
    /\ (req.pc \in {"Done", "Failed"} /\ Retrieved /\ req.filteredUrls # <<>>) =>
         Issued("extraction") = 1

\* The extraction call failed and the request ended without issuing it again.
ExtractionFailedOnce ==
  /\ req.op \in AnalysisOps
  /\ req.pc = "Failed"
  /\ req.extraction = "error"
  /\ req.log = <<"retrieval", "retrieval returned", "extraction", "extraction failed">>

\* C13: getSemanticRights returns an array of identifiers whatever the model
\* answers, and the empty array when the call fails or the answer is not
\* JSON or is JSON that is not an array.
SemanticRightsAlwaysArray ==
  (req.op = "getSemanticRights" /\ req.pc = "Done") =>
    /\ req.value.type = "array"
    /\ req.extraction \in {"error", "nonjson"} => req.value = ArrayValue(<<>>)

-----------------------------------------------------------------------------
(* Properties of the semantic search *)

\* C9: while the normalized search term has at most one character, no timer
\* or call exists for it and nothing is displayed, whatever call completes.
ShortTermShowsNothing ==
  (mounted /\ Len(Normalize(rightsSearchTerm)) <= 1) =>
    /\ semanticIds = <<>>
    /\ \A c \in timers \cup inflight : Len(c.term) > 1

\* C10: no timer is scheduled, and so no call issued, by a lookup of a term
\* for which the session cache already held an entry.
CachedTermSchedulesNothing ==
  \A c \in timers \cup inflight : ~c.hadEntry

\* The identifiers an entry of the session cache holds.
CachedIds(v) == IF v.type = "array" THEN Range(v.ids) ELSE {}

\* A step in which a call completes.
Completion == Cardinality(inflight') < Cardinality(inflight)

\* C11: a completed call that writes the entry of a term leaves in it every
\* identifier the entry held before: the identifier list cached for a term
\* never loses an element.
CacheEntriesOnlyGrow ==
  [][\A k \in CacheKeys :
       (SEMANTIC_CACHE[k].type = "array" /\ SEMANTIC_CACHE'[k].type = "array")
         => CachedIds(SEMANTIC_CACHE[k]) \subseteq CachedIds(SEMANTIC_CACHE'[k])]_vars

\* C12: at most one debounce timer is pending, and it is the one of the last
\* change, for the term now in the box; a call is issued only by a pending
\* timer expiring, so a timer cancelled by a later change issues none.
DebounceKeepsOneTimer ==
  [][/\ Cardinality(timers') <= 1
     /\ \A t \in timers' :
          t.id = searchTimeoutRef' /\ t.term = Normalize(rightsSearchTerm')
     /\ \A c \in inflight' :
          (\A d \in inflight : d.id # c.id) =>
            /\ \E t \in timers : t.id = c.id /\ t.term = c.term
            /\ c.term = Normalize(rightsSearchTerm)
            /\ \A t \in timers' : t.id # c.id]_vars

\* A second timer is pending and the first one was cancelled before it
\* expired: no call was issued for it, none is in flight, none has completed.
TimerSuperseded ==
  /\ serial = 2
  /\ \E t \in timers : t.id = 2
  /\ inflight = {}
  /\ \A k \in CacheKeys : ~HoldsEntry(k)

\* What a lookup of term k shows when the session cache holds an entry for it.
LookupIds(k) == Range(InstantMatches(k)) \cup CachedIds(SEMANTIC_CACHE[k])

\* C14: once the session cache holds identifiers for a term, a lookup of the
\* term shows at every later time at least what it showed before, whatever
\* completes in between.
CachedLookupOnlyGrows ==
  [][\A k \in CacheKeys :
       (SEMANTIC_CACHE[k].type = "array" /\ SEMANTIC_CACHE'[k].type = "array"
          /\ Len(k) > 1)
         => LookupIds(k) \subseteq LookupIds(k)']_vars

\* C18: a completing call changes the cache entry of the term it was issued
\* for and of no other term, the term now in the box included.
CompletionWritesOwnEntryOnly ==
  [][\A k \in CacheKeys :
       SEMANTIC_CACHE'[k] # SEMANTIC_CACHE[k] =>
         \E c \in inflight :
           /\ c.term = k
           /\ \A d \in inflight' : d.id # c.id]_vars

\* The call for "zz" was issued while the call for "food" was in flight and
\* has completed first, with "zz" in the box: it wrote the entry of "zz",
\* and the entry of "food" is as it was.
LaterCallCompletedFirst ==
  /\ \E c \in inflight : c.id = 1 /\ c.term = "food"
  /\ serial = 2
  /\ rightsSearchTerm = "zz"
  /\ timers = {}
  /\ Cardinality(inflight) = 1
  /\ HoldsEntry("zz")
  /\ ~HoldsEntry("food")

\* C19: when a call completes with a list after another call for the same
\* term completed with a list while both were in flight, the entry of the
\* term holds the identifiers of both, in whichever order they completed.
ConcurrentResolutionsBothMerge ==
  [][\A c \in inflight :
       (/\ c.overlapped
        /\ \A d \in inflight' : d.id # c.id
        /\ SEMANTIC_CACHE[c.term].type = "array"
        /\ SEMANTIC_CACHE'[c.term].type = "array")
         => CachedIds(SEMANTIC_CACHE[c.term]) \subseteq CachedIds(SEMANTIC_CACHE'[c.term])]_vars

\* C20: a call that fails (getSemanticRights logs the failure), or whose
\* payload is not a list, leaves the whole session cache as it was.
FailedCallLeavesCache ==
  [][(/\ Completion
      /\ \/ consoleError'
         \/ \E c \in inflight :
              /\ \A d \in inflight' : d.id # c.id
              /\ SEMANTIC_CACHE'[c.term].type # "array")
       => SEMANTIC_CACHE' = SEMANTIC_CACHE]_vars

\* What the index shows as semantic matches: the identifiers in semanticIds
\* while the component is rendered, nothing once a render has thrown.
Displayed == IF mounted THEN Range(semanticIds) ELSE {}

\* C21: the completion of a call, failed, empty or not, removes no
\* identifier from the displayed set.
CompletionKeepsDisplayed ==
  [][Completion => Displayed \subseteq Displayed']_vars

HasNoDuplicate(xs) == \A i, j \in DOMAIN xs : xs[i] = xs[j] => i = j

\* C22: a change to a term of more than one character that has a cache
\* entry displays the instant-table identifiers of the term united with the
\* cached ones, each once; a change to such a term without an entry displays
\* the instant-table identifiers and nothing else.
LookupShowsUnion ==
  [][rightsSearchTerm' # rightsSearchTerm =>
       LET term == Normalize(rightsSearchTerm')
       IN Len(term) > 1 =>
            IF HoldsEntry(term)
            THEN Displayed' = LookupIds(term) /\ HasNoDuplicate(semanticIds')
            ELSE mounted' /\ semanticIds' = InstantMatches(term)]_vars

\* The call that completes in a Completion step.
CompletedCall == CHOOSE c \in inflight : \A d \in inflight' : d.id # c.id

\* C28: what is displayed for the current term comes from its own lookup and
\* its own calls: the completion of a call that was issued for another term
\* adds no identifier to the displayed set.
SupersededCompletionAddsNothing ==
  [][(Completion /\ CompletedCall.term # Normalize(rightsSearchTerm)) =>
       Displayed' \subseteq Displayed]_vars

\* C29: the searching indicator is on exactly while a timer is pending or a
\* call is in flight for the current term.
SearchingFlagIsExact ==
  mounted =>
    (isSearchingSemantics <=>
       \E c \in timers \cup inflight : c.term = Normalize(rightsSearchTerm))

====
